---------------------------- MODULE Spec2Model ----------------------------
(***************************************************************************)
(* Model of the directive-resolution engine of divinum-officium-rs         *)
(* (src/src/setup_string.rs): the condition evaluator, the section parser, *)
(* the conditional line processor, the inclusion resolver and the          *)
(* per-(version, language, file) resolution cache with its Latin fallback  *)
(* layer.                                                                  *)
(*                                                                         *)
(* Representation.  A text (a Rust String) is a sequence of tokens.  A     *)
(* token is a record [k, a, b, c, sub]:                                    *)
(*   k = "nl"    the newline character                                     *)
(*   k = "w"     a literal word a                                          *)
(*   k = "dir"   the text "@a:b:sub" running to the end of its line        *)
(*   k = "frag"  the parenthesised text "(a c b)": stopword a, condition   *)
(*               words c, scope marker b                                   *)
(*   k = "missing_local" / "missing_section" / "file_not_found"            *)
(*               the diagnostic texts of get_loadtime_inclusion            *)
(* Words, file titles and section names are TLA+ strings, so the substring *)
(* tests of the condition evaluator are computed on the characters.        *)
(***************************************************************************)
EXTENDS Integers, Sequences, FiniteSets, TLC

VARIABLES
    files,      \* the data folder: <<lang, fname>> -> [present, lines]
    ctx,        \* the SetupStringContext fields read by the conditions
    cache,      \* SetupStringContext.cache_by_version
    last,       \* the last operation and what it returned
    noneSeen,   \* history: the <<lang, fname>> for which a call returned None
    ncalls,     \* the number of setupstring calls made
    dir         \* directorium: DATA, DCACHE, their locks and the call under way

vars == <<files, ctx, cache, last, noneSeen, ncalls, dir>>

---------------------------------------------------------------------------
(* Strings *)

Min(a, b) == IF a < b THEN a ELSE b
Max(a, b) == IF a > b THEN a ELSE b

UpperChars == <<"A","B","C","D","E","F","G","H","I","J","K","L","M",
                "N","O","P","Q","R","S","T","U","V","W","X","Y","Z">>
LowerChars == <<"a","b","c","d","e","f","g","h","i","j","k","l","m",
                "n","o","p","q","r","s","t","u","v","w","x","y","z">>

LowerChar(ch) ==
    IF \E i \in 1..26 : UpperChars[i] = ch
    THEN LowerChars[CHOOSE i \in 1..26 : UpperChars[i] = ch]
    ELSE ch

\* str::to_ascii_lowercase
RECURSIVE ToAsciiLowercase(_)
ToAsciiLowercase(s) ==
    IF Len(s) = 0 THEN ""
    ELSE LowerChar(SubSeq(s, 1, 1)) \o ToAsciiLowercase(SubSeq(s, 2, Len(s)))

\* str::contains for a literal pattern
StrContains(v, p) ==
    \E i \in 0..(Len(v) - Len(p)) : SubSeq(v, i + 1, i + Len(p)) = p

StartsWith(v, p) == Len(p) <= Len(v) /\ SubSeq(v, 1, Len(p)) = p

\* words joined by single spaces (Vec<&str>::join(" "))
RECURSIVE JoinWords(_)
JoinWords(ws) ==
    IF Len(ws) = 0 THEN ""
    ELSE IF Len(ws) = 1 THEN ws[1]
    ELSE ws[1] \o " " \o JoinWords(Tail(ws))

\* Regex::new(p).is_ok() for the patterns of the model: a pattern that opens
\* with a repetition operator does not compile; every other pattern of the
\* model is a literal.
RegexCompiles(p) ==
    ~(Len(p) > 0 /\ SubSeq(p, 1, 1) \in {"*", "+", "?"})

\* a matcher for which a pattern that does not compile matches nothing
RegexIsMatchStrict(p, v) == RegexCompiles(p) /\ StrContains(v, p)

\* Regex::new(p).unwrap_or(".*").is_match(v)
RegexIsMatch(p, v) == IF RegexCompiles(p) THEN StrContains(v, p) ELSE TRUE

---------------------------------------------------------------------------
(* Condition evaluator.  A condition text is the sequence of its           *)
(* whitespace-separated words.                                             *)

\* split /\bword\b/: the parts between the occurrences of the word
RECURSIVE SplitOnWordFrom(_, _, _, _)
SplitOnWordFrom(ws, word, i, cur) ==
    IF i > Len(ws) THEN <<cur>>
    ELSE IF ws[i] = word
         THEN <<cur>> \o SplitOnWordFrom(ws, word, i + 1, <<>>)
         ELSE SplitOnWordFrom(ws, word, i + 1, Append(cur, ws[i]))

split_on_word(ws, word) == SplitOnWordFrom(ws, word, 1, <<>>)

\* the segments between the operators and the operators themselves, each a
\* sequence of words; empty segments are not pushed
RECURSIVE SplitPreservingFrom(_, _, _, _)
SplitPreservingFrom(ws, ops, i, cur) ==
    IF i > Len(ws) THEN (IF cur = <<>> THEN <<>> ELSE <<cur>>)
    ELSE IF ws[i] \in ops
         THEN (IF cur = <<>> THEN <<>> ELSE <<cur>>) \o << <<ws[i]>> >>
              \o SplitPreservingFrom(ws, ops, i + 1, <<>>)
         ELSE SplitPreservingFrom(ws, ops, i + 1, Append(cur, ws[i]))

split_preserving_operator(ws, ops) == SplitPreservingFrom(ws, ops, 1, <<>>)

is_known_subject(s) ==
    ToAsciiLowercase(s) \in {"rubrica", "rubricis", "tempore", "missa",
        "commune", "communi", "votiva", "die", "feria", "officio", "ad"}

\* <<subject, predicate>> of one condition piece
parse_subject_predicate(t) ==
    IF Len(t) = 0 THEN <<"tempore", "">>
    ELSE IF Len(t) = 1 THEN <<"tempore", t[1]>>
    ELSE IF is_known_subject(t[1]) THEN <<t[1], JoinWords(Tail(t))>>
    ELSE <<"tempore", JoinWords(t)>>

\* the placeholder season id of the source
get_tempus_id == "post Pentecosten"

get_dayname_for_condition == ""

DigitStr(n) == <<"0","1","2","3","4","5","6","7","8","9">>[n + 1]

SubjectValueOf(s, subj) ==
    CASE s \in {"rubrica", "rubricis"} -> ctx.version
      [] s = "tempore" -> get_tempus_id
      [] s = "missa" -> ctx.missa_number
      [] s \in {"commune", "communi"} -> ctx.commune
      [] s = "votiva" -> ctx.votive
      [] s = "die" -> get_dayname_for_condition
      [] s = "feria" -> DigitStr(ctx.dayofweek + 1)
      [] s = "officio" -> ctx.dayname1
      [] s = "ad" -> (IF ctx.missa_number # "" THEN "missam" ELSE ctx.hora)
      [] OTHER -> subj

subject_value(subj) == SubjectValueOf(ToAsciiLowercase(subj), subj)

\* the table of predicate_matches for the lowercased predicate p
PredicateTable(p, subj_value) ==
    CASE p = "tridentina" -> StrContains(subj_value, "Trident")
      [] p = "monastica" -> StrContains(subj_value, "Monastic")
      [] p \in {"innovata", "innovatis"} ->
            StrContains(subj_value, "2020 USA") \/ StrContains(subj_value, "NewCal")
      [] p = "paschali" ->
            \/ StrContains(subj_value, "Paschæ")
            \/ StrContains(subj_value, "Ascensionis")
            \/ StrContains(subj_value, "Octava Pentecostes")
      [] p = "post septuagesimam" ->
            \/ StrContains(subj_value, "Septua")
            \/ StrContains(subj_value, "Quadra")
            \/ StrContains(subj_value, "Passio")
      [] p = "prima" -> subj_value = "1"
      [] p = "secunda" -> subj_value = "2"
      [] p = "tertia" -> subj_value = "3"
      [] p = "longior" -> subj_value = "1"
      [] p = "brevior" -> subj_value = "2"
      [] p = "summorum pontificum" ->
            \/ StartsWith(subj_value, "Divino")
            \/ StartsWith(subj_value, "1955")
            \/ StartsWith(subj_value, "196")
      [] p = "feriali" ->
            StrContains(subj_value, "feria") \/ StrContains(subj_value, "vigilia")
      [] OTHER -> RegexIsMatch(p, ToAsciiLowercase(subj_value))

predicate_matches(predicate, subj_value) ==
    PredicateTable(ToAsciiLowercase(predicate), subj_value)

\* the loop of evaluate_sub_condition from token i on, with the negation flag
RECURSIVE SubConditionFrom(_, _, _)

\* a loop in which "nisi" negates the next piece only
SubConditionMatchNextOnly(tokens, i, negation, sp) ==
    IF (~predicate_matches(sp[2], subject_value(sp[1]))) # negation THEN FALSE
    ELSE SubConditionFrom(tokens, i + 1, FALSE)

\* the token is a condition piece, parsed into sp = <<subject, predicate>>:
\* if !matched ^ negation { return false }
SubConditionMatch(tokens, i, negation, sp) ==
    IF (~predicate_matches(sp[2], subject_value(sp[1]))) # negation THEN FALSE
    ELSE SubConditionFrom(tokens, i + 1, negation)

\* the token whose lowercased text is tl
SubConditionStep(tokens, i, negation, tl) ==
    IF tl = "et" THEN SubConditionFrom(tokens, i + 1, negation)
    ELSE IF tl = "nisi" THEN SubConditionFrom(tokens, i + 1, TRUE)
    ELSE SubConditionMatch(tokens, i, negation, parse_subject_predicate(tokens[i]))

SubConditionFrom(tokens, i, negation) ==
    IF i > Len(tokens) THEN TRUE
    ELSE SubConditionStep(tokens, i, negation,
                          ToAsciiLowercase(JoinWords(tokens[i])))

evaluate_sub_condition(ws) ==
    SubConditionFrom(split_preserving_operator(ws, {"et", "nisi"}), 1, FALSE)

\* a condition that asks every part to hold
AllParts(parts) == \A k \in 1..Len(parts) : evaluate_sub_condition(parts[k])

\* any(|part| evaluate_sub_condition(part)) over the parts between "aut"
AnyPart(parts) == \E k \in 1..Len(parts) : evaluate_sub_condition(parts[k])

\* an evaluator for which the empty condition fails
EvaluateEmptyAsFalse(ws) ==
    IF ws = <<>> THEN FALSE ELSE AnyPart(split_on_word(ws, "aut"))

\* let cond = expr.trim(); if cond.is_empty() { return true }
evaluate_condition(ws) ==
    IF ws = <<>> THEN TRUE ELSE AnyPart(split_on_word(ws, "aut"))

---------------------------------------------------------------------------
(* Tokens and texts *)

Tok(k, a, b, c, sub) == [k |-> k, a |-> a, b |-> b, c |-> c, sub |-> sub]

NL == Tok("nl", "", "", <<>>, <<>>)
W(x) == Tok("w", x, "", <<>>, <<>>)
\* "@file:section:subs"
DIR(file, section, subs) == Tok("dir", file, section, <<>>, subs)
\* "(stopword condition scope)"
FRAG(stopword, cond, scope) == Tok("frag", stopword, scope, cond, <<>>)

\* one line of a data file as do_read returns it: a header line "[name]rest"
\* (h = TRUE) or a text line; toks are the tokens after the header, or the
\* tokens of the text line
HeaderLine(name, rest) == [h |-> TRUE, name |-> name, toks |-> rest]
TextLine(toks) == [h |-> FALSE, name |-> "", toks |-> toks]

\* str::lines(): the runs between newlines, without a final empty run
RECURSIVE LinesFrom(_, _, _)
LinesFrom(text, i, cur) ==
    IF i > Len(text) THEN (IF cur = <<>> THEN <<>> ELSE <<cur>>)
    ELSE IF text[i].k = "nl"
         THEN <<cur>> \o LinesFrom(text, i + 1, <<>>)
         ELSE LinesFrom(text, i + 1, Append(cur, text[i]))

Lines(text) == LinesFrom(text, 1, <<>>)

\* [String]::join("\n")
RECURSIVE JoinLines(_)
JoinLines(ls) ==
    IF Len(ls) = 0 THEN <<>>
    ELSE IF Len(ls) = 1 THEN ls[1]
    ELSE ls[1] \o <<NL>> \o JoinLines(Tail(ls))

\* HashMap::insert
Put(m, k, v) == [x \in (DOMAIN m) \cup {k} |-> IF x = k THEN v ELSE m[x]]

EmptyMap == [x \in {} |-> <<>>]

---------------------------------------------------------------------------
(* Section parser and conditional line processor *)

\* The capture groups of conditional_regex on a fragment.  The pattern is
\*   \(\s*( (\b(?:sed|vero|...)\b)* )?(.*?)( scope )?\s*\)
\* so group 1 is the run of stopwords, group 2 the stopword group inside it
\* (absent when the fragment has no stopword), group 3 the condition and
\* group 4 the scope marker.
conditional_regex(frag) ==
    [g1 |-> frag.a, g2 |-> frag.a, g3 |-> frag.c, g4 |-> frag.b]

\* cap.get(2).map(|m| m.as_str()).unwrap_or("").trim(), as condition words
CapturedCondition(caps) == IF caps.g2 = "" THEN <<>> ELSE <<caps.g2>>

HasFrag(toks) == \E i \in 1..Len(toks) : toks[i].k = "frag"

\* conditional_regex.captures(rem): the leftmost fragment
FirstFrag(toks) ==
    toks[CHOOSE i \in 1..Len(toks) :
            /\ toks[i].k = "frag"
            /\ \A j \in 1..(i - 1) : toks[j].k # "frag"]

\* the guard of a header line passes
GuardPasses(line) ==
    HasFrag(line.toks) =>
        evaluate_condition(CapturedCondition(conditional_regex(FirstFrag(line.toks))))

\* the fragment is cut: if !pass { current_line.replace_range(...) }
FragFails(t) ==
    t.k = "frag" /\ ~evaluate_condition(CapturedCondition(conditional_regex(t)))

\* the number of characters of the words ws
RECURSIVE SumLen(_)
SumLen(ws) == IF ws = <<>> THEN 0 ELSE Len(Head(ws)) + SumLen(Tail(ws))

\* the words between the parentheses of a fragment
FragParts(t) == SelectSeq(<<t.a>> \o t.c \o <<t.b>>, LAMBDA s : s # "")

\* the number of characters of a token; the words of a fragment are one
\* space apart
Width(t) ==
    IF t.k = "frag"
    THEN 2 + SumLen(FragParts(t)) + Max(Len(FragParts(t)) - 1, 0)
    ELSE IF t.k = "w" THEN Len(t.a)
    ELSE 2 + Len(t.a) + Len(t.b)

\* the offset of token i in its line, the tokens one space apart, and the
\* length of the line
RECURSIVE Offset(_, _)
Offset(line, i) ==
    IF i <= 1 THEN 0 ELSE Offset(line, i - 1) + Width(line[i - 1]) + 1
\* String::replace_range(from..to, "") on current_line, held as the offsets
\* in the original line of the characters it still has: a range that ends
\* beyond the string panics
ReplaceRange(cur, from, to) ==
    IF to > Len(cur) THEN [err |-> "panic", cur |-> cur]
    ELSE [err |-> "none",
          cur |-> SubSeq(cur, 1, from) \o SubSeq(cur, to + 1, Len(cur))]

\* the loop over captures_iter(&line) from token i on: each failing
\* fragment is cut with the range it has in the original line
RECURSIVE CutFrom(_, _, _)
CutNext(line, r, i) ==
    IF r.err # "none" THEN r ELSE CutFrom(line, r.cur, i + 1)
CutFrom(line, cur, i) ==
    IF i > Len(line) THEN [err |-> "none", cur |-> cur]
    ELSE IF FragFails(line[i])
    THEN CutNext(line,
                 ReplaceRange(cur, Offset(line, i), Offset(line, i) + Width(line[i])),
                 i)
    ELSE CutFrom(line, cur, i + 1)

\* current_line after the loop
CutLine(line) ==
    CutFrom(line,
            [p \in 1..(Offset(line, Len(line)) + Width(line[Len(line)])) |-> p - 1],
            1)

\* the offsets, counted inside token i, of its characters left in cur
LeftOf(line, cur, i) ==
    SelectSeq([p \in 1..Width(line[i]) |-> p - 1],
              LAMBDA q : \E h \in 1..Len(cur) : cur[h] = Offset(line, i) + q)

\* current_line as tokens: a token with all its characters, or the part
\* that is left of it (sub holds the offsets of its characters left)
RECURSIVE TokensLeft(_, _, _)
TokensLeft(line, cur, i) ==
    IF i > Len(line) THEN <<>>
    ELSE (IF Len(LeftOf(line, cur, i)) = Width(line[i]) THEN <<line[i]>>
          ELSE IF LeftOf(line, cur, i) = <<>> THEN <<>>
          ELSE <<Tok("part", line[i].a, line[i].b, line[i].c, LeftOf(line, cur, i))>>)
         \o TokensLeft(line, cur, i + 1)

\* one line of process_conditional_lines: the fragments whose condition fails
\* are cut out of the line.  The ranges are those of the original line: for
\* the first failing fragment they are the ranges of current_line too, for
\* a later one they are not.
ProcessLine(line) ==
    IF Cardinality({i \in 1..Len(line) : FragFails(line[i])}) <= 1
    THEN SelectSeq(line, LAMBDA t : ~FragFails(t))
    ELSE TokensLeft(line, CutLine(line).cur, 1)

\* the lines kept by process_conditional_lines: a line that is blank after
\* the cut is not pushed
KeptLines(ls) ==
    SelectSeq([i \in 1..Len(ls) |-> ProcessLine(ls[i])], LAMBDA l : l # <<>>)

process_conditional_lines(content) == KeptLines(Lines(content))

\* process_conditional_lines panics on one of the lines of the content
ProcessAborts(content) ==
    \E i \in 1..Len(Lines(content)) :
        /\ Cardinality({j \in 1..Len(Lines(content)[i]) :
                            FragFails(Lines(content)[i][j])}) >= 2
        /\ CutLine(Lines(content)[i]).err = "panic"

\* the loop over the lines of setupstring_parse_file
RECURSIVE ParseFrom(_, _, _, _)
ParseFrom(lines, i, current, sections) ==
    IF i > Len(lines) THEN sections
    ELSE LET line == lines[i] IN
         IF line.h
         THEN IF ~GuardPasses(line)
              THEN ParseFrom(lines, i + 1, "__skip__" \o line.name,
                             Put(sections, "__skip__" \o line.name, <<>>))
              ELSE ParseFrom(lines, i + 1, line.name,
                             Put(sections, line.name, <<>>))
         ELSE ParseFrom(lines, i + 1, current,
                        Put(sections, current,
                            sections[current] \o line.toks \o <<NL>>))

\* the second loop of setupstring_parse_file, over the sections
ProcessSections(raw) ==
    [s \in DOMAIN raw |-> JoinLines(process_conditional_lines(raw[s])) \o <<NL>>]

setupstring_parse_file(lines) ==
    ProcessSections(ParseFrom(lines, 1, "__preamble",
                              Put(EmptyMap, "__preamble", <<>>)))

\* merge_section_maps: the new sections override the base
merge_section_maps(base, newsec) ==
    [s \in (DOMAIN base) \cup (DOMAIN newsec) |->
        IF s \in DOMAIN newsec THEN newsec[s] ELSE base[s]]

---------------------------------------------------------------------------
(* The cache and the data folder *)

\* format!("{}::{}", self.version, lang)
VersionKey(lang) == <<ctx.version, lang>>

\* cache_by_version.entry(version_key).or_insert_with(HashMap::new)
CacheTouch(c, vk) == IF vk \in DOMAIN c THEN c ELSE Put(c, vk, EmptyMap)

CacheHas(c, vk, fname) == vk \in DOMAIN c /\ fname \in DOMAIN c[vk]

\* cache_for_version.insert(fname, final_sections.clone()); the field by is
\* history only: the depth of the call that stored the entry
CacheInsert(c, vk, fname, secs, resolve) ==
    Put(CacheTouch(c, vk), vk,
        Put(CacheTouch(c, vk)[vk], fname, [secs |-> secs, by |-> resolve]))

\* the in-place variant: the hit path stores what it expanded
CacheAfterHitInPlace(c, vk, fname, secs) ==
    Put(c, vk, Put(c[vk], fname, [secs |-> secs, by |-> c[vk][fname].by]))

\* the cache after the hit path has expanded its clone: the entry is not
\* written
CacheAfterHit(c, vk, fname, secs) == c

\* do_read of a file that is absent: Ok with no lines
DoReadAbsentAsEmpty(lang, fname) == [ok |-> TRUE, lines |-> <<>>, kind |-> ""]

\* do_read(<datafolder>/<lang>/<fname>): the lines, or the Err of
\* fs::read_to_string for a file that is not there or cannot be read
do_read(lang, fname) ==
    IF <<lang, fname>> \notin DOMAIN files
    THEN [ok |-> FALSE, lines |-> <<>>, kind |-> "NotFound"]
    ELSE IF files[<<lang, fname>>].present /\ files[<<lang, fname>>].readable
    THEN [ok |-> TRUE, lines |-> files[<<lang, fname>>].lines, kind |-> ""]
    ELSE [ok |-> FALSE, lines |-> <<>>,
          kind |-> IF files[<<lang, fname>>].present
                   THEN "PermissionDenied" ELSE "NotFound"]

---------------------------------------------------------------------------
(* Inclusion resolver *)

\* the cap on the passes of expand_section_inclusions
MaxPasses == 10

\* format!("MISSING local section: {}", section)
MissingLocalText(section) == <<Tok("missing_local", "", section, <<>>, <<>>)>>
\* format!("{}:{} is missing!", ftitle, section)
MissingSectionText(ftitle, section) ==
    <<Tok("missing_section", ftitle, section, <<>>, <<>>)>>
\* a resolver that drops the directive of a missing file without a trace
FileNotFoundSilent(ftitle, section) == <<>>
\* format!("{}:{} file not found", ftitle, section)
FileNotFoundText(ftitle, section) ==
    <<Tok("file_not_found", ftitle, section, <<>>, <<>>)>>

\* a substitution token of the directive: a line range "lo-hi" (t = "range")
\* or "s/p/r/" with or without the g flag (t = "s")
RangeSub(lo, hi) == [t |-> "range", p |-> "", r |-> "", g |-> FALSE, lo |-> lo, hi |-> hi]
ReSub(p, r, g) == [t |-> "s", p |-> p, r |-> r, g |-> g, lo |-> 0, hi |-> 0]

\* a replacement that takes every match, with or without the g flag
RECURSIVE ReplaceWordsAlways(_, _, _, _)
ReplaceWordsAlways(text, p, r, all) ==
    IF text = <<>> THEN <<>>
    ELSE IF Head(text).k = "w" /\ Head(text).a = p
         THEN <<W(r)>> \o ReplaceWordsAlways(Tail(text), p, r, all)
         ELSE <<Head(text)>> \o ReplaceWordsAlways(Tail(text), p, r, all)

\* Regex::replace / replace_all of a literal word pattern
RECURSIVE ReplaceWords(_, _, _, _)
ReplaceWords(text, p, r, all) ==
    IF text = <<>> THEN <<>>
    ELSE IF Head(text).k = "w" /\ Head(text).a = p
         THEN <<W(r)>> \o (IF all THEN ReplaceWords(Tail(text), p, r, all)
                           ELSE Tail(text))
         ELSE <<Head(text)>> \o ReplaceWords(Tail(text), p, r, all)

\* a slice that leaves the line of the end of the range out
SliceLinesEndExclusive(text, ls, from, to) ==
    IF from > to THEN [err |-> "panic", text |-> text]
    ELSE [err |-> "none", text |-> JoinLines(SubSeq(ls, from + 1, to - 1)) \o <<NL>>]

\* one token of do_inclusion_substitutions; err = "panic" when the slice
\* lines[start-1 .. min(end, len)] is taken with its start beyond its end
SliceLines(text, ls, from, to) ==
    IF from > to THEN [err |-> "panic", text |-> text]
    ELSE [err |-> "none", text |-> JoinLines(SubSeq(ls, from + 1, to)) \o <<NL>>]

ApplySub(text, sub) ==
    IF sub.t = "s"
    THEN [err |-> "none", text |-> ReplaceWords(text, sub.p, sub.r, sub.g)]
    ELSE SliceLines(text, Lines(text), Max(sub.lo - 1, 0),
                    Min(sub.hi, Len(Lines(text))))

RECURSIVE do_inclusion_substitutions(_, _)

\* the tokens after the one whose result is r
SubstituteRest(r, subs) ==
    IF r.err # "none" THEN r ELSE do_inclusion_substitutions(r.text, Tail(subs))

do_inclusion_substitutions(text, subs) ==
    IF subs = <<>> THEN [err |-> "none", text |-> text]
    ELSE SubstituteRest(ApplySub(text, Head(subs)), subs)

\* the regex (?m)^\@...$ matches at position i: a directive that opens a line
DirectiveAt(text, i) ==
    text[i].k = "dir" /\ (i = 1 \/ text[i - 1].k = "nl")

RECURSIVE SetupString(_, _, _, _, _, _)
RECURSIVE ExpandFrom(_, _, _, _, _, _, _, _)

\* Results carry the cache as the calls left it and err: "none", "overflow"
\* (the recursion does not return: the call stack is exhausted) or "panic".

\* the text of a section that was found, after its substitutions (r)
IncludedText(c, r) == [cache |-> c, err |-> r.err, text |-> r.text]

\* the branch of get_loadtime_inclusion for another file, loaded as ext
ExternalInclusion(ext, ftitle, section, subs) ==
    IF ext.err # "none" THEN [cache |-> ext.cache, err |-> ext.err, text |-> <<>>]
    ELSE IF ~ext.some
    THEN [cache |-> ext.cache, err |-> "none",
          text |-> FileNotFoundText(ftitle, section)]
    ELSE IF section \in DOMAIN ext.secs
    THEN IncludedText(ext.cache, do_inclusion_substitutions(ext.secs[section], subs))
    ELSE [cache |-> ext.cache, err |-> "none",
          text |-> MissingSectionText(ftitle, section)]

get_loadtime_inclusion(c, sections, lang, ftitle, section, subs, active) ==
    IF ftitle = ""
    THEN IF section \in DOMAIN sections
         THEN IncludedText(c, do_inclusion_substitutions(sections[section], subs))
         ELSE [cache |-> c, err |-> "none", text |-> MissingLocalText(section)]
    ELSE ExternalInclusion(
            SetupString(c, lang, ftitle \o ".txt", "WholeFile", <<>>, active),
            ftitle, section, subs)

\* the next match of re.find_iter from position i on
NextDirective(text, i) ==
    CHOOSE j \in i..Len(text) :
        /\ DirectiveAt(text, j)
        /\ \A h \in i..(j - 1) : ~DirectiveAt(text, h)

\* the directive at j has been read as r: push the text before the match
\* and the included text, go on after the match
ExpandSplice(text, i, j, acc, sections, lang, current, active, r) ==
    IF r.err # "none" THEN [cache |-> r.cache, err |-> r.err, text |-> acc]
    ELSE ExpandFrom(r.cache, text, j + 1,
                    acc \o SubSeq(text, i, j - 1) \o r.text,
                    sections, lang, current, active)

\* the match at j: group 1 the file, group 2 the section (the current one
\* when it is empty), group 3 the substitutions
ExpandAt(c, text, i, j, acc, sections, lang, current, active) ==
    ExpandSplice(text, i, j, acc, sections, lang, current, active,
        get_loadtime_inclusion(c, sections, lang, text[j].a,
            IF text[j].b = "" THEN current ELSE text[j].b, text[j].sub, active))

\* the loop of expand_inclusions_in_text: re.find_iter from position i on,
\* acc is result so far
ExpandFrom(c, text, i, acc, sections, lang, current, active) ==
    IF ~(\E j \in i..Len(text) : DirectiveAt(text, j))
    THEN [cache |-> c, err |-> "none", text |-> acc \o SubSeq(text, i, Len(text))]
    ELSE ExpandAt(c, text, i, NextDirective(text, i), acc, sections, lang,
                  current, active)

expand_inclusions_in_text(c, text, sections, lang, current, active) ==
    ExpandFrom(c, text, 1, <<>>, sections, lang, current, active)

\* the passes of expand_section_inclusions from pass number pass on
RECURSIVE ExpandPasses(_, _, _, _, _, _, _)

\* the passes end with the first pass, whatever it changed
PassDoneOnce(r, body, pass, sections, key, lang, active) == r

\* the pass has given r: if new_body == old { break }
PassDone(r, body, pass, sections, key, lang, active) ==
    IF r.err # "none" THEN r
    ELSE IF r.text = body THEN [cache |-> r.cache, err |-> "none", text |-> body]
    ELSE ExpandPasses(r.cache, r.text, pass + 1, sections, key, lang, active)

ExpandPasses(c, body, pass, sections, key, lang, active) ==
    IF pass >= MaxPasses THEN [cache |-> c, err |-> "none", text |-> body]
    ELSE PassDone(expand_inclusions_in_text(c, body, sections, lang, key, active),
                  body, pass, sections, key, lang, active)

\* sections.insert(key, b) with the body r of the passes
StoreBody(sections, key, r) ==
    [cache |-> r.cache, err |-> r.err,
     secs |-> IF r.err = "none" THEN Put(sections, key, r.text) ELSE sections]

expand_section_inclusions(c, sections, key, lang, active) ==
    IF key \notin DOMAIN sections
    THEN [cache |-> c, err |-> "none", secs |-> sections]
    ELSE StoreBody(sections, key,
                   ExpandPasses(c, sections[key], 0, sections, key, lang, active))

\* the order of the visits: "Rule" first, then the keys in the order the
\* HashMap yields them (ord), "Rule" skipped
VisitOrder(ord) ==
    (IF \E i \in 1..Len(ord) : ord[i] = "Rule" THEN <<"Rule">> ELSE <<>>)
    \o SelectSeq(ord, LAMBDA k : k # "Rule")

RECURSIVE VisitFrom(_, _, _, _, _, _)

\* the visit i has given r
VisitNext(r, visit, i, lang, active) ==
    IF r.err # "none" THEN r
    ELSE VisitFrom(r.cache, r.secs, visit, i + 1, lang, active)

VisitFrom(c, sections, visit, i, lang, active) ==
    IF i > Len(visit) THEN [cache |-> c, err |-> "none", secs |-> sections]
    ELSE VisitNext(expand_section_inclusions(c, sections, visit[i], lang, active),
                   visit, i, lang, active)

\* ord: sections.keys() in the order of the HashMap's iteration
resolve_inclusions_in_sections(c, sections, lang, ord, active) ==
    VisitFrom(c, sections, VisitOrder(ord), 1, lang, active)

\* one pass, with no sections to look local references up in
resolve_inclusions_in_preamble(c, preamble, lang, active) ==
    expand_inclusions_in_text(c, preamble, EmptyMap, lang, "__preamble", active)

\* if let Some(secs) = ... { secs } else { HashMap::new() }
FallbackSections(r) ==
    [cache |-> r.cache, err |-> r.err,
     secs |-> IF r.err = "none" /\ r.some THEN r.secs ELSE EmptyMap]

setupstring_fallback_layer(c, lang, fname, active) ==
    IF ToAsciiLowercase(lang) = "latin"
    THEN [cache |-> c, err |-> "none", secs |-> EmptyMap]
    ELSE FallbackSections(SetupString(c, "Latin", fname, "None", <<>>, active))

NoSections(c, err) == [cache |-> c, err |-> err, some |-> FALSE, secs |-> EmptyMap]

\* return Some(cloned), the clone being r.secs after its expansion
ReturnClone(r, vk, fname) ==
    IF r.err # "none" THEN NoSections(r.cache, r.err)
    ELSE [cache |-> CacheAfterHit(r.cache, vk, fname, r.secs),
          err |-> "none", some |-> TRUE, secs |-> r.secs]

\* cloned.get_mut("__preamble") set to the text of r
ClonePreamble(r, cloned) ==
    [cache |-> r.cache, err |-> r.err,
     secs |-> IF r.err = "none" THEN Put(cloned, "__preamble", r.text) ELSE cloned]

\* the expansion of the clone that the depth asks for
ExpandClone(c1, cloned, lang, resolve, ord, act) ==
    IF resolve = "All"
    THEN resolve_inclusions_in_sections(c1, cloned, lang, ord, act)
    ELSE IF resolve = "WholeFile" /\ "__preamble" \in DOMAIN cloned
    THEN ClonePreamble(
            resolve_inclusions_in_preamble(c1, cloned["__preamble"], lang, act),
            cloned)
    ELSE [cache |-> c1, err |-> "none", secs |-> cloned]

\* the path of setupstring for a file that is in the cache
SetupStringHit(c1, vk, lang, fname, resolve, ord, act) ==
    ReturnClone(ExpandClone(c1, c1[vk][fname].secs, lang, resolve, ord, act),
                vk, fname)

\* cache_for_version.insert(fname, final_sections.clone()); Some(final_sections)
MissInsert(vk, fname, resolve, sec) ==
    IF sec.err # "none" THEN NoSections(sec.cache, sec.err)
    ELSE [cache |-> CacheInsert(sec.cache, vk, fname, sec.secs, resolve),
          err |-> "none", some |-> TRUE, secs |-> sec.secs]

\* if resolve == All: the references of each section are expanded
MissSections(vk, lang, fname, resolve, ord, act, pre) ==
    IF pre.err # "none" THEN NoSections(pre.cache, pre.err)
    ELSE MissInsert(vk, fname, resolve,
            IF resolve = "All"
            THEN resolve_inclusions_in_sections(pre.cache, pre.secs, lang, ord, act)
            ELSE pre)

\* final_sections.get_mut("__preamble") set to the text of r
MergedPreamble(r, merged) ==
    [cache |-> r.cache, err |-> r.err,
     secs |-> IF r.err = "none" THEN Put(merged, "__preamble", r.text) ELSE merged]

\* if resolve != None: the preamble of the merged sections is expanded
MissPreamble(vk, lang, fname, resolve, ord, act, c, merged) ==
    MissSections(vk, lang, fname, resolve, ord, act,
        IF resolve # "None" /\ "__preamble" \in DOMAIN merged
        THEN MergedPreamble(
                resolve_inclusions_in_preamble(c, merged["__preamble"], lang, act),
                merged)
        ELSE [cache |-> c, err |-> "none", secs |-> merged])

\* the file is parsed and merged over the fallback layer fb
MissMerge(vk, lang, fname, resolve, ord, act, lines, fb) ==
    IF fb.err # "none" THEN NoSections(fb.cache, fb.err)
    ELSE MissPreamble(vk, lang, fname, resolve, ord, act, fb.cache,
            merge_section_maps(fb.secs, setupstring_parse_file(lines)))

\* match do_read(&fullpath) { Ok(lines) => lines, Err(_) => return None }
MissRead(c1, vk, lang, fname, resolve, ord, act, rd) ==
    IF ~rd.ok THEN NoSections(c1, "none")
    ELSE MissMerge(vk, lang, fname, resolve, ord, act, rd.lines,
                   setupstring_fallback_layer(c1, lang, fname, act))

\* the path of setupstring for a file that is not in the cache
SetupStringMiss(c1, vk, lang, fname, resolve, ord, act) ==
    MissRead(c1, vk, lang, fname, resolve, ord, act, do_read(lang, fname))

\* the body of setupstring on the cache c1, in which the version key vk has
\* its map
SetupStringOn(c1, vk, lang, fname, resolve, ord, active) ==
    IF <<lang, fname, resolve, c1>> \in active THEN NoSections(c1, "overflow")
    ELSE IF CacheHas(c1, vk, fname)
    THEN SetupStringHit(c1, vk, lang, fname, resolve, ord,
                        active \cup {<<lang, fname, resolve, c1>>})
    ELSE SetupStringMiss(c1, vk, lang, fname, resolve, ord,
                         active \cup {<<lang, fname, resolve, c1>>})

\* setupstring(lang, fname, resolve) on the cache c.  active holds the calls
\* that have not returned, each with the cache it started on: a call that
\* starts in the state of a call that is still active repeats it, so the
\* recursion never returns and exhausts the stack (err = "overflow").
SetupString(c, lang, fname, resolve, ord, active) ==
    SetupStringOn(CacheTouch(c, VersionKey(lang)), VersionKey(lang),
                  lang, fname, resolve, ord, active)

---------------------------------------------------------------------------
(* The data files of the model *)

\* a file of the data folder: absent, present and readable, or present with
\* no permission to read it
Absent == [present |-> FALSE, readable |-> FALSE, lines |-> <<>>]
Present(lines) == [present |-> TRUE, readable |-> TRUE, lines |-> lines]
Denied(lines) == [present |-> TRUE, readable |-> FALSE, lines |-> lines]

NoSub == <<>>

\* a section of the generated file: a header line and its body lines
SectionBlocks == {
    \* [Foo] / Duplex
    << HeaderLine("Foo", <<>>), TextLine(<<W("Duplex")>>) >>,
    \* [Foo](xyz-never-true) / Alternate
    << HeaderLine("Foo", <<FRAG("", <<"xyz-never-true">>, "")>>),
       TextLine(<<W("Alternate")>>) >>,
    \* [Foo](sed rubrica tridentina) / Tridentinum
    << HeaderLine("Foo", <<FRAG("sed", <<"rubrica", "tridentina">>, "")>>),
       TextLine(<<W("Tridentinum")>>) >>,
    \* [Bar] / @:Foo
    << HeaderLine("Bar", <<>>), TextLine(<<DIR("", "Foo", NoSub)>>) >>,
    \* [Bar] / @M:Foo / @B:Nope / @B:Bar
    << HeaderLine("Bar", <<>>), TextLine(<<DIR("M", "Foo", NoSub)>>),
       TextLine(<<DIR("B", "Nope", NoSub)>>),
       TextLine(<<DIR("B", "Bar", NoSub)>>) >>,
    \* [Foo] / @:Foo
    << HeaderLine("Foo", <<>>), TextLine(<<DIR("", "Foo", NoSub)>>) >>,
    \* [Foo] / Hello @B:Bar:
    << HeaderLine("Foo", <<>>), TextLine(<<W("Hello"), DIR("B", "Bar", NoSub)>>) >>,
    \* [Bar] / @B / @:Zed
    << HeaderLine("Bar", <<>>), TextLine(<<DIR("B", "", NoSub)>>),
       TextLine(<<DIR("", "Zed", NoSub)>>) >>,
    \* [Bar] / a (sed monastica) b / (blank) / (monastica hic versus omittitur)
    << HeaderLine("Bar", <<>>),
       TextLine(<<W("a"), FRAG("sed", <<"monastica">>, ""), W("b")>>),
       TextLine(<<>>),
       TextLine(<<FRAG("", <<"monastica">>, "hic versus omittitur")>>) >>
}

\* the lines before the first header of the generated file
Preambles == {
    <<>>,
    \* @:Foo
    << TextLine(<<DIR("", "Foo", NoSub)>>) >>
}

\* the generated files: a preamble and one or two sections
FilesA ==
    {Present(p \o s) : p \in Preambles, s \in SectionBlocks}
    \cup {Present(p \o s \o t) : p \in Preambles, s \in SectionBlocks, t \in SectionBlocks}

\* [Bar] / World
PlainB == Present(<< HeaderLine("Bar", <<>>), TextLine(<<W("World")>>) >>)

\* the files Latin/A.txt of the systems that vary the other files
FilesA2 == {
    \* [Foo] / Duplex / [Bar] / @B:Bar
    Present(<< HeaderLine("Foo", <<>>), TextLine(<<W("Duplex")>>),
               HeaderLine("Bar", <<>>), TextLine(<<DIR("B", "Bar", NoSub)>>) >>),
    \* @B:Bar / [Foo] / Duplex / [Bar] / @:Foo
    Present(<< TextLine(<<DIR("B", "Bar", NoSub)>>),
               HeaderLine("Foo", <<>>), TextLine(<<W("Duplex")>>),
               HeaderLine("Bar", <<>>), TextLine(<<DIR("", "Foo", NoSub)>>) >>)
}

FilesB == {
    Absent,
    PlainB,
    \* @B:Bar / [Bar] / World
    Present(<< TextLine(<<DIR("B", "Bar", NoSub)>>),
               HeaderLine("Bar", <<>>), TextLine(<<W("World")>>) >>),
    \* @A:Foo / [Bar] / World
    Present(<< TextLine(<<DIR("A", "Foo", NoSub)>>),
               HeaderLine("Bar", <<>>), TextLine(<<W("World")>>) >>)
}

FilesEnglishA == {
    Absent,
    \* [Foo] / Anglice
    Present(<< HeaderLine("Foo", <<>>), TextLine(<<W("Anglice")>>) >>),
    \* [Foo](xyz-never-true) / Anglice / [Baz] / @:Foo
    Present(<< HeaderLine("Foo", <<FRAG("", <<"xyz-never-true">>, "")>>),
               TextLine(<<W("Anglice")>>),
               HeaderLine("Baz", <<>>), TextLine(<<DIR("", "Foo", NoSub)>>) >>)
}

Depths == {"None", "WholeFile", "All"}
Slots == {"Latin", "English"} \X {"A.txt", "B.txt"}

\* the files a host asks for
Requests == {<<"Latin", "A.txt">>, <<"Latin", "B.txt">>, <<"English", "A.txt">>}

FileSystem(a, b, e) ==
    [slot \in Slots |->
        CASE slot = <<"Latin", "A.txt">> -> a
          [] slot = <<"Latin", "B.txt">> -> b
          [] slot = <<"English", "A.txt">> -> e
          [] OTHER -> Absent]

\* the fields of SetupStringContext that the conditions can read; dayname0
\* is dayname[0], the label of the day within its season
ContextOf(version, dayname0) ==
    [version |-> version, missa_number |-> "", dayofweek |-> 0, commune |-> "",
     votive |-> "", hora |-> "Laudes", dayname0 |-> dayname0, dayname1 |-> ""]

Context(version) == ContextOf(version, "")

Versions == {"Tridentine - 1570", "Monastic"}

---------------------------------------------------------------------------
(* directorium: the kalendar tables behind the DATA and DCACHE mutexes *)

DataVersions == {"V1", "V2", "V3"}
KalendarKey(version) == <<"kalendar", version>>

\* data.txt: one row per version with its kalendar file and base version;
\* a base is a later row, so no chain of bases comes back to its start
DataRows ==
    {[v \in DataVersions |->
        [kalendar |-> v, base |-> IF v = "V1" THEN b1 ELSE IF v = "V2" THEN b2 ELSE ""]] :
        b1 \in {"", "V2", "V3"}, b2 \in {"", "V3"}}

\* Kalendaria/<kalendar>.txt: absent, or the key=value lines as a map; the
\* value of a day names the version whose file it is
NoKalendarFile == [present |-> FALSE, map |-> << >>]
KalendarFilesOf(v) ==
    {NoKalendarFile, [present |-> TRUE, map |-> << >>],
     [present |-> TRUE, map |-> [d \in {"Mon"} |-> v]]}

\* no call of the directorium is under way and nothing is loaded
NoDirectorium ==
    [dataTxt |-> [present |-> FALSE, rows |-> << >>],
     kalendaria |-> [v \in DataVersions |-> NoKalendarFile],
     DATA |-> << >>, DCACHE |-> << >>, held |-> {}, stack |-> << >>,
     version |-> "", day |-> "", pc |-> "idle", result |-> [some |-> FALSE, val |-> ""]]

\* the Option<String> None
NoneK == [some |-> FALSE, val |-> ""]

\* the version of the innermost get_kalendar frame
Top(d) == d.stack[Len(d.stack)]

\* DCACHE after is_cached: load_data_data marks "loaded" when data.txt has
\* lines, and leaves the cache alone when it cannot be read
DcacheAfterIsCached(d) ==
    IF <<"loaded">> \in DOMAIN d.DCACHE \/ ~d.dataTxt.present
    THEN d.DCACHE
    ELSE [k \in DOMAIN d.DCACHE \cup {<<"loaded">>} |->
            IF k = <<"loaded">> THEN << >> ELSE d.DCACHE[k]]

\* DATA after is_cached: the rows of data.txt, inserted over what is there
DataAfterIsCached(d) ==
    IF <<"loaded">> \in DOMAIN d.DCACHE \/ ~d.dataTxt.present
    THEN d.DATA
    ELSE [v \in DOMAIN d.DATA \cup DOMAIN d.dataTxt.rows |->
            IF v \in DOMAIN d.dataTxt.rows THEN d.dataTxt.rows[v] ELSE d.DATA[v]]

\* DCACHE after load_kalendar(version)
DcacheAfterLoad(d, version) ==
    IF version \in DOMAIN d.DATA /\ d.kalendaria[d.DATA[version].kalendar].present
    THEN [k \in DOMAIN d.DCACHE \cup {KalendarKey(version)} |->
            IF k = KalendarKey(version)
            THEN d.kalendaria[d.DATA[version].kalendar].map
            ELSE d.DCACHE[k]]
    ELSE d.DCACHE

---------------------------------------------------------------------------
(* The state machine *)

\* the number of setupstring calls of a behaviour
MaxCalls == 2

RECURSIVE Perms(_)
Perms(S) ==
    IF S = {} THEN {<<>>}
    ELSE UNION {{<<x>> \o p : p \in Perms(S \ {x})} : x \in S}

HasDirective(text) == \E i \in 1..Len(text) : DirectiveAt(text, i)

\* The orders in which the HashMap of the call can yield its keys.  A body
\* with no directive at the start of a line is left as it is whenever it is
\* visited, so the keys of such bodies are put last, in one order, and the
\* other keys are taken in every order.
OrdersOf(keys, busy) ==
    {p \o (CHOOSE q \in Perms(keys \ busy) : TRUE) : p \in Perms(busy)}

BusyOrders(secs) ==
    OrdersOf(DOMAIN secs, {k \in DOMAIN secs : HasDirective(secs[k])})

Orders(lang, fname, resolve) ==
    IF resolve = "All"
    THEN BusyOrders(SetupString(cache, lang, fname, "None", <<>>, {}).secs)
    ELSE {<<>>}

NoCall ==
    [op |-> "init", lang |-> "", fname |-> "", resolve |-> "", hit |-> FALSE,
     present |-> FALSE, some |-> FALSE, secs |-> EmptyMap, err |-> "none"]

Init ==
    /\ files \in {FileSystem(a, PlainB, Absent) : a \in FilesA}
                \cup {FileSystem(a, b, e) :
                        a \in FilesA2, b \in FilesB, e \in FilesEnglishA}
    /\ ctx = Context("Tridentine - 1570")
    /\ cache = EmptyMap
    /\ last = NoCall
    /\ noneSeen = {}
    /\ ncalls = 0
    /\ dir = NoDirectorium

\* the call returns r (or ends the process, when r.err is not "none")
Returns(lang, fname, resolve, r) ==
    /\ cache' = IF r.err = "none" THEN r.cache ELSE cache
    /\ last' = [op |-> "call", lang |-> lang, fname |-> fname,
                resolve |-> resolve,
                hit |-> CacheHas(cache, VersionKey(lang), fname),
                present |-> files[<<lang, fname>>].present,
                some |-> r.some, secs |-> r.secs, err |-> r.err]
    /\ noneSeen' = IF r.err = "none" /\ ~r.some
                   THEN noneSeen \cup {<<lang, fname>>} ELSE noneSeen

\* one setupstring(lang, fname, resolve) call of the host
Call(lang, fname, resolve) ==
    /\ last.err = "none"
    /\ ncalls < MaxCalls
    /\ ncalls' = ncalls + 1
    /\ \E ord \in Orders(lang, fname, resolve) :
        Returns(lang, fname, resolve,
                SetupString(cache, lang, fname, resolve, ord, {}))
    /\ UNCHANGED <<files, ctx, dir>>

Next == \E rq \in Requests, resolve \in Depths : Call(rq[1], rq[2], resolve)

Spec == Init /\ [][Next]_vars

InitIo ==
    /\ files \in {FileSystem(a, b, e) :
                    a \in FilesA2 \cup {Denied(PlainB.lines)},
                    b \in FilesB \cup {Denied(PlainB.lines)},
                    e \in FilesEnglishA \cup {Denied(PlainB.lines)}}
    /\ ctx = Context("Tridentine - 1570")
    /\ cache = EmptyMap
    /\ last = NoCall
    /\ noneSeen = {}
    /\ ncalls = 0
    /\ dir = NoDirectorium

SpecIo == InitIo /\ [][Next]_vars

InitEnv ==
    /\ files \in {FileSystem(a, b, e) :
                    a \in FilesA2, b \in {Absent, PlainB}, e \in FilesEnglishA}
    /\ ctx \in {Context(v) : v \in Versions}
    /\ cache = EmptyMap
    /\ last = NoCall
    /\ noneSeen = {}
    /\ ncalls = 0
    /\ dir = NoDirectorium

CreateFile(slot) ==
    /\ last.err = "none"
    /\ ~files[slot].present
    /\ files' = [files EXCEPT ![slot] = Present(<< HeaderLine("Foo", <<>>), TextLine(<<W("Stub")>>) >>)]
    /\ UNCHANGED <<ctx, cache, last, noneSeen, ncalls, dir>>

\* the host sets the version field of the context
SetVersion(v) ==
    /\ last.err = "none"
    /\ ctx.version # v
    /\ ctx' = [ctx EXCEPT !.version = v]
    /\ UNCHANGED <<files, cache, last, noneSeen, ncalls, dir>>

NextEnv ==
    \/ \E rq \in Requests, resolve \in Depths : Call(rq[1], rq[2], resolve)
    \/ \E slot \in Requests : CreateFile(slot)
    \/ \E v \in Versions : SetVersion(v)

SpecEnv == InitEnv /\ [][NextEnv]_vars

---------------------------------------------------------------------------
(* The functions of the engine applied on their own: the condition         *)
(* evaluator, the predicate matcher, the conditional line processor and    *)
(* the substitutions of a directive, each on inputs of bounded sets, in    *)
(* the contexts of ContextsApply.                                          *)

ContextsApply == {ContextOf(v, d) : v \in Versions, d \in {"Pasc1-0", "Pent03-0"}}

\* the sequences of at most n words of S
WordSeqs(S, n) == UNION {[1..k -> S] : k \in 0..n}

\* the longest condition of arbitrary words
MaxWords == 4
\* the most terms of a generated and-chain
MaxTerms == 3
\* the most chains of a generated condition
MaxChains == 3
\* the longest condition built of subjects and predicates
MaxTermWords == 2

\* "post" matches the season id of the source, "xyz" does not
OneWordTerms == {"post", "xyz"}

\* the and-chains of exactly n one-word terms, joined by "et", "nisi" or
\* "et nisi"
RECURSIVE AndChains(_)
AndChains(n) ==
    IF n = 1 THEN {<<t>> : t \in OneWordTerms}
    ELSE {c \o op \o <<t>> : c \in AndChains(n - 1),
                             op \in {<<"et">>, <<"nisi">>, <<"et", "nisi">>},
                             t \in OneWordTerms}

\* the conditions of exactly n chains, each a term or a negated term
RECURSIVE OrChains(_)
OrChains(n) ==
    IF n = 1 THEN AndChains(1) \cup {<<"nisi", t>> : t \in OneWordTerms}
    ELSE {d \o <<"aut">> \o c : d \in OrChains(n - 1), c \in OrChains(1)}

Conditions ==
    WordSeqs({"et", "nisi", "aut"} \cup OneWordTerms, MaxWords)
    \cup UNION {AndChains(n) : n \in 1..MaxTerms}
    \cup UNION {OrChains(n) : n \in 1..MaxChains}
    \cup WordSeqs({"rubrica", "tempore", "feria", "tridentina", "Monastica",
                  "paschali", "PASCHALI", "prima", "pentecosten", "PENTECOSTEN",
                  "*bad"}, MaxTermWords)

Predicates == {"tridentina", "TRIDENTINA", "monastica", "Monastica",
               "paschali", "Paschali", "prima", "PRIMA", "pentecosten",
               "Pentecosten", "PENTECOSTEN", "paschæ", "PASCHÆ", "*bad"}

SubjectValues == {"Tridentine - 1570", "Monastic", "post Pentecosten",
                  "POST PENTECOSTEN", "Paschæ", "PASCHÆ", "1"}

\* the lines that stand before a fragment: two text lines and a blank line
BodyLines == {<<W("one")>>, <<W("two")>>, <<>>}

\* the most lines before the line of the fragment
MaxPre == 3

\* "(stopword condition marker)": with or without the stopword sed, with no
\* scope marker, the marker of line scope or the marker of chunk scope
Fragments ==
    {FRAG(sw, cond, scope) :
        sw \in {"", "sed"},
        cond \in {<<"monastica">>, <<"rubrica", "tridentina">>},
        scope \in {"", "hic versus omittitur", "hi versus omittuntur"}}

\* the bodies of a section, as sequences of lines: lines, the line of a
\* fragment (the fragment alone or before literal text) and at most one
\* line after it
Contents ==
    {pre \o <<fl>> \o post :
        pre \in WordSeqs(BodyLines, MaxPre),
        fl \in {<<f>> : f \in Fragments} \cup {<<f, W("keep-me")>> : f \in Fragments},
        post \in {<<>>, << <<W("three")>> >>}}

\* lines with two fragments: next to each other, before a word shorter than
\* a fragment, and between words with a word longer than a fragment at the
\* end of the line
TwoFragLines ==
    {<<f, f>> : f \in {FRAG("sed", <<"monastica">>, "")}}
    \cup {<<f, f, W("keep-me")>> : f \in {FRAG("sed", <<"monastica">>, "")}}
    \cup {<<W("a"), f, W("b"), f, W("this-is-kept-as-it-stands")>> :
            f \in {FRAG("sed", <<"monastica">>, "")}}

\* bodies with a line of two fragments
ContentsTwo ==
    {pre \o <<fl>> : pre \in {<<>>, << <<W("one")>> >>}, fl \in TwoFragLines}

\* the text of a body: ent.push_str(line); ent.push('\n') for each line
RECURSIVE TextOf(_)
TextOf(ls) ==
    IF ls = <<>> THEN <<>> ELSE Head(ls) \o <<NL>> \o TextOf(Tail(ls))

\* the most lines of an included text
MaxLines == 5

\* the texts a directive includes: bodies of the lines "a" and "b"
IncludedTexts == {TextOf(ls) : ls \in WordSeqs({<<W("a")>>, <<W("b")>>}, MaxLines)}

\* the substitutions of a directive: one line range "lo-hi", or one
\* "s/a/c/" or "s/a/c/g"
Substitutions ==
    {<<RangeSub(lo, hi)>> : lo \in 0..(MaxLines + 1), hi \in 0..(MaxLines + 1)}
    \cup {<<ReSub("a", "c", g)>> : g \in BOOLEAN}

InitApply ==
    /\ files = FileSystem(Absent, Absent, Absent)
    /\ ctx \in ContextsApply
    /\ cache = EmptyMap
    /\ last = NoCall
    /\ noneSeen = {}
    /\ ncalls = 0
    /\ dir = NoDirectorium

\* The functions keep no state, so a behaviour applies one of them once.

\* evaluate_condition(expr) for the words ws of expr
Evaluate(ws) ==
    /\ last.op = "init"
    /\ last' = [op |-> "evaluate_condition", expr |-> ws,
                value |-> evaluate_condition(ws), err |-> "none"]
    /\ UNCHANGED <<files, ctx, cache, noneSeen, ncalls, dir>>

\* predicate_matches(predicate, subj_value)
Match(predicate, subj_value) ==
    /\ last.op = "init"
    /\ last' = [op |-> "predicate_matches", predicate |-> predicate,
                subj_value |-> subj_value,
                matched |-> predicate_matches(predicate, subj_value),
                err |-> "none"]
    /\ UNCHANGED <<files, ctx, cache, noneSeen, ncalls, dir>>

\* process_conditional_lines(content) for the body of lines ls
ProcessLines(ls) ==
    /\ last.op = "init"
    /\ last' = [op |-> "process_conditional_lines", content |-> ls,
                out |-> IF ProcessAborts(TextOf(ls)) THEN <<>>
                        ELSE process_conditional_lines(TextOf(ls)),
                err |-> IF ProcessAborts(TextOf(ls)) THEN "panic" ELSE "none"]
    /\ UNCHANGED <<files, ctx, cache, noneSeen, ncalls, dir>>

\* do_inclusion_substitutions(text, subs)
Substitute(text, subs) ==
    /\ last.op = "init"
    /\ last' = [op |-> "do_inclusion_substitutions", text |-> text, subs |-> subs,
                result |-> do_inclusion_substitutions(text, subs).text,
                err |-> do_inclusion_substitutions(text, subs).err]
    /\ UNCHANGED <<files, ctx, cache, noneSeen, ncalls, dir>>

\* the bodies of the section of a parsed file: lines without a fragment,
\* blank lines among them, and bodies with a line that holds a fragment
ParseBodies ==
    WordSeqs(BodyLines, MaxPre)
    \cup {pre \o << <<FRAG("sed", <<"monastica">>, ""), W("keep-me")>> >> \o post :
            pre \in WordSeqs(BodyLines, 1), post \in WordSeqs(BodyLines, 1)}

\* setupstring_parse_file(lines) for the file "[Foo]" followed by the lines
\* of the body
ParseFile(body) ==
    /\ last.op = "init"
    /\ last' = [op |-> "setupstring_parse_file", body |-> body,
                secs |-> setupstring_parse_file(
                            <<HeaderLine("Foo", <<>>)>>
                            \o [i \in 1..Len(body) |-> TextLine(body[i])])]
    /\ UNCHANGED <<files, ctx, cache, noneSeen, ncalls, dir>>

NextApply ==
    \/ \E body \in ParseBodies : ParseFile(body)
    \/ \E ws \in Conditions : Evaluate(ws)
    \/ \E p \in Predicates, v \in SubjectValues : Match(p, v)
    \/ \E ls \in Contents \cup ContentsTwo : ProcessLines(ls)
    \/ \E text \in IncludedTexts, subs \in Substitutions : Substitute(text, subs)

SpecApply == InitApply /\ [][NextApply]_vars

---------------------------------------------------------------------------
(* get_kalendar, one step per lock it takes.  The calls come from one      *)
(* thread; a frame of get_kalendar keeps its guards until it returns.      *)

InitKal ==
    /\ files = FileSystem(Absent, Absent, Absent)
    /\ ctx = Context("Tridentine - 1570")
    /\ cache = EmptyMap
    /\ last = NoCall
    /\ noneSeen = {}
    /\ ncalls = 0
    /\ dir \in {[NoDirectorium EXCEPT !.dataTxt = t, !.kalendaria = k] :
                    t \in {[present |-> FALSE, rows |-> << >>]}
                          \cup {[present |-> TRUE, rows |-> r] : r \in DataRows},
                    k \in {f \in [DataVersions ->
                                    UNION {KalendarFilesOf(v) : v \in DataVersions}] :
                              \A v \in DataVersions : f[v] \in KalendarFilesOf(v)}}

\* get_kalendar(version, day) is entered from the host
StartCall(version, day) ==
    /\ dir.pc = "idle"
    /\ dir' = [dir EXCEPT !.stack = <<version>>, !.version = version, !.day = day,
                          !.pc = "is_cached", !.result = NoneK]
    /\ UNCHANGED <<files, ctx, cache, last, noneSeen, ncalls>>

\* is_cached(cache_key): takes DCACHE, loads data.txt when "loaded" is not
\* a key, and looks the key up; all its guards are dropped at its end
IsCached ==
    /\ dir.pc = "is_cached"
    /\ "DCACHE" \notin dir.held
    /\ dir' = [dir EXCEPT
                 !.DATA = DataAfterIsCached(dir),
                 !.DCACHE = DcacheAfterIsCached(dir),
                 !.pc = IF KalendarKey(Top(dir)) \in DOMAIN dir.DCACHE
                        THEN "lookup" ELSE "load_kalendar"]
    /\ UNCHANGED <<files, ctx, cache, last, noneSeen, ncalls>>

\* DCACHE.lock() by the thread that holds DCACHE: std::sync::Mutex leaves
\* it open whether the call panics or never returns
Relock ==
    /\ dir.pc = "is_cached"
    /\ "DCACHE" \in dir.held
    /\ \E outcome \in {"blocked", "panicked"} : dir' = [dir EXCEPT !.pc = outcome]
    /\ UNCHANGED <<files, ctx, cache, last, noneSeen, ncalls>>

\* load_kalendar(version); its Err is dropped by get_kalendar
LoadKalendar ==
    /\ dir.pc = "load_kalendar"
    /\ "DATA" \notin dir.held
    /\ dir' = [dir EXCEPT !.DCACHE = DcacheAfterLoad(dir, Top(dir)),
                          !.pc = "lookup"]
    /\ UNCHANGED <<files, ctx, cache, last, noneSeen, ncalls>>

\* the rest of get_kalendar: the lookup under the DCACHE guard, then under
\* the DATA guard the call on the base version, both guards still held
Lookup ==
    /\ dir.pc = "lookup"
    /\ dir' = IF /\ KalendarKey(Top(dir)) \in DOMAIN dir.DCACHE
                 /\ dir.day \in DOMAIN dir.DCACHE[KalendarKey(Top(dir))]
              THEN [dir EXCEPT !.result = [some |-> TRUE,
                                           val |-> dir.DCACHE[KalendarKey(Top(dir))][dir.day]],
                               !.stack = << >>, !.held = {}, !.pc = "idle"]
              ELSE IF Top(dir) \in DOMAIN dir.DATA /\ dir.DATA[Top(dir)].base # ""
              THEN [dir EXCEPT !.stack = Append(dir.stack, dir.DATA[Top(dir)].base),
                               !.held = {"DCACHE", "DATA"}, !.pc = "is_cached"]
              ELSE [dir EXCEPT !.result = NoneK,
                               !.stack = << >>, !.held = {}, !.pc = "idle"]
    /\ UNCHANGED <<files, ctx, cache, last, noneSeen, ncalls>>

NextKal ==
    \/ \E version \in DataVersions \cup {"Vx"}, day \in {"Mon", "Tue"} :
            StartCall(version, day)
    \/ IsCached
    \/ Relock
    \/ LoadKalendar
    \/ Lookup

\* the thread of the calls is scheduled as long as it can take a step
SpecKal == InitKal /\ [][NextKal]_vars /\ WF_vars(NextKal)

---------------------------------------------------------------------------
(* Properties *)

\* the last step was a setupstring call that returned
Returned == last.op = "call" /\ last.err = "none"

\* the names of the headers of a file
HeaderNames(lines) == {lines[i].name : i \in {j \in 1..Len(lines) : lines[j].h}}

\* The file with its guards settled on the condition text of the guard (the
\* text between the stopwords and the scope marker): a header whose guard
\* holds is a plain header, a header whose guard fails opens a hidden section.
GuardsSettled(lines) ==
    [i \in 1..Len(lines) |->
        IF lines[i].h /\ HasFrag(lines[i].toks)
        THEN IF evaluate_condition(FirstFrag(lines[i].toks).c)
             THEN HeaderLine(lines[i].name, <<>>)
             ELSE HeaderLine("__hidden__", <<>>)
        ELSE lines[i]]

\* the sections of a file whose guards are settled on their condition text
SectionsByGuard(lines) == setupstring_parse_file(GuardsSettled(lines))

\* C1: for a file with several headers of one name, the section returned
\* under the name is the body of the last occurrence whose guard is absent or
\* evaluates true; an occurrence whose guard evaluates false is never stored
\* under the real name.
C1_LastPassingOccurrenceWins ==
    (Returned /\ last.some /\ ~last.hit /\ last.lang = "Latin"
        /\ last.resolve = "None")
    => LET lines == files[<<last.lang, last.fname>>].lines
           expected == SectionsByGuard(lines)
       IN \A n \in HeaderNames(lines) :
            IF n \in DOMAIN expected
            THEN n \in DOMAIN last.secs /\ last.secs[n] = expected[n]
            ELSE n \notin DOMAIN last.secs

\* C3: every setupstring call terminates, also on files whose directives
\* refer to themselves or to each other, in section bodies or in the
\* preamble: no call recurses without end.
C3_EveryCallTerminates == last.op = "call" => last.err # "overflow"

\* C4: the sections returned by setupstring at depth All hold no unexpanded
\* inclusion directive.
C4_NoDirectiveAtDepthAll ==
    (Returned /\ last.some /\ last.resolve = "All")
    => \A k \in DOMAIN last.secs :
         \A i \in 1..Len(last.secs[k]) : last.secs[k][i].k # "dir"

\* ---- C2 ----

\* the sections of the file of the last call as the parser leaves them
RawSections == setupstring_parse_file(files[<<last.lang, last.fname>>].lines)

\* the file and the section a directive d of section key names
TargetSlot(d) == <<last.lang, IF d.a = "" THEN last.fname ELSE d.a \o ".txt">>
TargetSection(d, key) == IF d.b = "" THEN key ELSE d.b

\* the directive names a file that is not in the data folder
FileMissing(d) ==
    d.a # "" /\ (TargetSlot(d) \notin DOMAIN files \/ ~files[TargetSlot(d)].present)

\* the directive names a section of which the file it names has no header
SectionMissing(d, key) ==
    /\ ~FileMissing(d)
    /\ TargetSection(d, key) \notin HeaderNames(files[TargetSlot(d)].lines)

\* the file holds a directive
HoldsDirective(lines) ==
    \E i \in 1..Len(lines) : \E j \in 1..Len(lines[i].toks) : lines[i].toks[j].k = "dir"

\* the directive names, without substitutions, a section without guards or
\* directives, in its own file or in a file without directives
PlainTarget(d, key) ==
    /\ ~FileMissing(d)
    /\ ~SectionMissing(d, key)
    /\ d.sub = <<>>
    /\ (d.a # "" => ~HoldsDirective(files[TargetSlot(d)].lines))
    /\ LET lines == files[TargetSlot(d)].lines
           sec == TargetSection(d, key)
       IN /\ \A i \in 1..Len(lines) :
                (lines[i].h /\ lines[i].name = sec) => ~HasFrag(lines[i].toks)
          /\ \A t \in {setupstring_parse_file(lines)[sec][i] :
                         i \in 1..Len(setupstring_parse_file(lines)[sec])} :
                t.k \notin {"dir", "frag"}

\* what the directive is to be replaced by
Replacement(d, key) ==
    IF FileMissing(d)
    THEN <<Tok("file_not_found", d.a, TargetSection(d, key), <<>>, <<>>)>>
    ELSE IF SectionMissing(d, key)
    THEN IF d.a = ""
         THEN <<Tok("missing_local", "", TargetSection(d, key), <<>>, <<>>)>>
         ELSE <<Tok("missing_section", d.a, TargetSection(d, key), <<>>, <<>>)>>
    ELSE setupstring_parse_file(files[TargetSlot(d)].lines)[TargetSection(d, key)]

RECURSIVE ReplacedFrom(_, _, _)
ReplacedFrom(text, i, key) ==
    IF i > Len(text) THEN <<>>
    ELSE (IF DirectiveAt(text, i) THEN Replacement(text[i], key) ELSE <<text[i]>>)
         \o ReplacedFrom(text, i + 1, key)

\* the directives that open a line of the text
DirectivesOf(text) == {text[i] : i \in {j \in 1..Len(text) : DirectiveAt(text, j)}}

\* a body with a directive whose target is missing, whose other directives
\* name plain targets
HasMissingTarget(text, key) ==
    /\ \E d \in DirectivesOf(text) : FileMissing(d) \/ SectionMissing(d, key)
    /\ \A d \in DirectivesOf(text) :
            FileMissing(d) \/ SectionMissing(d, key) \/ PlainTarget(d, key)

\* C2: a directive that names a missing file, or a section its target file
\* lacks, is replaced by a placeholder that names what is missing; the call
\* does not fail, and the other directives of the body are expanded as usual.
C2_MissingTargetsBecomePlaceholders ==
    /\ (last.op = "call" /\ last.lang = "Latin" /\ last.resolve = "All"
          /\ last.present
          /\ (\E k \in DOMAIN RawSections :
                \E d \in DirectivesOf(RawSections[k]) :
                    FileMissing(d) \/ SectionMissing(d, k))
          /\ \A k \in DOMAIN RawSections :
                \A d \in DirectivesOf(RawSections[k]) :
                    FileMissing(d) \/ SectionMissing(d, k) \/ PlainTarget(d, k))
       => (last.err = "none" /\ last.some)
    /\ (Returned /\ last.some /\ last.lang = "Latin" /\ last.resolve = "All")
       => \A k \in (DOMAIN RawSections) \ {"__preamble"} :
            HasMissingTarget(RawSections[k], k)
            => /\ k \in DOMAIN last.secs
               /\ last.secs[k] = ReplacedFrom(RawSections[k], 1, k)

\* a call that left both placeholders and the text of a sibling directive
C2_Witness ==
    /\ Returned /\ last.some /\ last.lang = "Latin" /\ last.resolve = "All"
    /\ \E k \in (DOMAIN RawSections) \ {"__preamble"} :
        /\ HasMissingTarget(RawSections[k], k)
        /\ k \in DOMAIN last.secs
        /\ \E i, j, h \in 1..Len(last.secs[k]) :
            /\ last.secs[k][i].k = "file_not_found"
            /\ last.secs[k][j].k = "missing_section"
            /\ last.secs[k][h] = W("World")

\* ---- C5, C6, C7 ----

\* the cache entry of the file of the last call
LastEntry == cache[VersionKey(last.lang)][last.fname]

\* C5: a call at depth None followed by the completion to depth All of the
\* sections it cached returns the sections of one call at depth All on a
\* fresh cache (in one of the orders its HashMap can take).
C5_StagedEqualsOneShot ==
    (Returned /\ last.some /\ last.hit /\ last.resolve = "All"
        /\ LastEntry.by = "None")
    => \E ord \in Perms(DOMAIN last.secs) :
         LET r == SetupString(EmptyMap, last.lang, last.fname, "All", ord, {})
         IN r.err = "none" /\ r.some /\ r.secs = last.secs

\* C6: a call at depth All for a file that a call at depth All has resolved
\* returns the sections of the first call.
C6_ReResolutionIsIdempotent ==
    (Returned /\ last.some /\ last.hit /\ last.resolve = "All"
        /\ LastEntry.by = "All")
    => last.secs = LastEntry.secs

\* C7: no setupstring call changes the sections stored under a key of the
\* cache; a hit expands a copy.
C7_CachedSectionsNeverChange ==
    [][\A vk \in DOMAIN cache : \A f \in DOMAIN cache[vk] :
          /\ vk \in DOMAIN cache'
          /\ f \in DOMAIN cache'[vk]
          /\ cache'[vk][f].secs = cache[vk][f].secs]_vars

\* a hit at depth All on sections cached at depth None that returned other
\* sections than the cached ones
C7_Witness ==
    /\ Returned /\ last.some /\ last.hit /\ last.resolve = "All"
    /\ LastEntry.by = "None"
    /\ last.secs # LastEntry.secs

\* ---- C8, C9, C10 ----

\* C8: setupstring returns None for an absent file at every depth, raises
\* no error and caches nothing for the file; a later call for the path,
\* once the file is there, returns its sections.
C8_AbsentFileIsNone ==
    /\ (last.op = "call" /\ ~last.present) => (last.err = "none" /\ ~last.some)
    /\ \A slot \in DOMAIN files :
         ~files[slot].present
         => \A vk \in DOMAIN cache :
              vk[2] = slot[1] => slot[2] \notin DOMAIN cache[vk]
    /\ (last.op = "call" /\ last.present /\ <<last.lang, last.fname>> \in noneSeen)
       => (last.err = "none" /\ last.some)

\* a call that returns the sections of a file for which an earlier call
\* returned None
C8_Witness ==
    /\ Returned /\ last.some /\ last.present
    /\ <<last.lang, last.fname>> \in noneSeen

\* C9: for a language other than Latin whose file is missing while the Latin
\* file of the name is there, setupstring returns the Latin layer alone.
C9_MissingFileFallsBackToLatin ==
    (last.op = "call" /\ last.lang # "Latin" /\ ~last.present
        /\ files[<<"Latin", last.fname>>].present)
    => /\ last.err = "none"
       /\ last.some
       /\ last.secs = SetupString(cache, "Latin", last.fname, "None", <<>>, {}).secs

\* C10: for a language other than Latin whose file is there, a section the
\* file defines under an absent or true guard has the body of the file, and
\* a section only the Latin file defines has the Latin body at depth None;
\* the sections of a Latin call come from the Latin file alone.
C10_OverlayOfLatinAndRequested ==
    /\ (Returned /\ last.some /\ ~last.hit /\ last.lang # "Latin"
          /\ last.resolve = "None")
       => LET ownLines == files[<<last.lang, last.fname>>].lines
              latinLines == files[<<"Latin", last.fname>>].lines
              own == SectionsByGuard(ownLines)
              latin == IF files[<<"Latin", last.fname>>].present
                       THEN SectionsByGuard(latinLines) ELSE EmptyMap
          IN \A n \in HeaderNames(ownLines) \cup HeaderNames(latinLines) :
               IF n \in DOMAIN own
               THEN n \in DOMAIN last.secs /\ last.secs[n] = own[n]
               ELSE IF n \in DOMAIN latin
               THEN n \in DOMAIN last.secs /\ last.secs[n] = latin[n]
               ELSE n \notin DOMAIN last.secs
    /\ (Returned /\ last.some /\ ~last.hit /\ last.lang = "Latin")
       => \A n \in DOMAIN last.secs :
            n \in HeaderNames(files[<<"English", last.fname>>].lines)
            => n \in HeaderNames(files[<<"Latin", last.fname>>].lines)

\* ---- C11 ----

\* Latin/A.txt is "[Foo]" / "Hello @B:Bar:" and Latin/B.txt is "[Bar]" /
\* "World"
ScenarioB ==
    /\ files[<<"Latin", "A.txt">>] =
          Present(<< HeaderLine("Foo", <<>>),
                     TextLine(<<W("Hello"), DIR("B", "Bar", NoSub)>>) >>)
    /\ files[<<"Latin", "B.txt">>] = PlainB

\* C11: a directive is expanded wherever it stands in a section body, also
\* after other text of its line: with A = "[Foo]" / "Hello @B:Bar:" and
\* B = "[Bar]" / "World", a call for A at depth All returns Foo =
\* "Hello World\n".
C11_DirectiveExpandedInsideLine ==
    (Returned /\ last.some /\ last.lang = "Latin" /\ last.fname = "A.txt"
        /\ last.resolve = "All" /\ ScenarioB)
    => /\ "Foo" \in DOMAIN last.secs
       /\ last.secs["Foo"] = <<W("Hello"), W("World"), NL>>

\* ---- C12, C13, C14 ----

\* the last step was an evaluate_condition call
Evaluated == last.op = "evaluate_condition"

IsOperator(w) == w \in {"et", "nisi"}

\* the positions at which a term of the chain opens
TermStarts(ws) ==
    {i \in 1..Len(ws) : ~IsOperator(ws[i]) /\ (i = 1 \/ IsOperator(ws[i - 1]))}

\* the term that opens at position i: the words up to the next operator
TermAt(ws, i) ==
    SubSeq(ws, i, CHOOSE j \in i..Len(ws) :
                    /\ \A h \in i..j : ~IsOperator(ws[h])
                    /\ (j = Len(ws) \/ IsOperator(ws[j + 1])))

\* the predicate of the term holds of the value of its subject
TermMatches(t) ==
    predicate_matches(parse_subject_predicate(t)[2],
                      subject_value(parse_subject_predicate(t)[1]))

\* a "nisi" stands before position i
AfterNisi(ws, i) == \E h \in 1..(i - 1) : ws[h] = "nisi"

\* every term before the first "nisi" matches and no term after it does
ChainHolds(ws) ==
    \A i \in TermStarts(ws) : TermMatches(TermAt(ws, i)) = ~AfterNisi(ws, i)

Words(ws) == {ws[i] : i \in 1..Len(ws)}

\* C12: in an and-chain "nisi" negates every term after it, to the end of
\* the chain: the chain is true exactly when every term before the "nisi"
\* matches and every term after it does not match.
C12_NisiNegatesRestOfChain ==
    (Evaluated /\ "aut" \notin Words(last.expr) /\ "nisi" \in Words(last.expr))
    => last.value = ChainHolds(last.expr)

\* "a et nisi b et c" with a and b matching and c not: the chain is false
C12_Witness ==
    /\ Evaluated
    /\ last.expr = <<"post", "et", "nisi", "post", "et", "xyz">>
    /\ ~last.value

\* the chains of a condition: the words between the "aut"s
ChainBounds(ws) == {0, Len(ws) + 1} \cup {i \in 1..Len(ws) : ws[i] = "aut"}

ChainsOf(ws) ==
    {SubSeq(ws, p + 1, q - 1) : <<p, q>> \in
        {b \in ChainBounds(ws) \X ChainBounds(ws) :
            /\ b[1] < b[2]
            /\ \A m \in ChainBounds(ws) : ~(b[1] < m /\ m < b[2])}}

\* C13: a condition is the OR of its "aut"-separated chains:
\* evaluate_condition is true exactly when one chain at least holds.
C13_ConditionIsOrOfChains ==
    Evaluated => last.value = (\E ch \in ChainsOf(last.expr) : ChainHolds(ch))

\* a condition whose second chain alone holds, and one none of whose chains
\* holds
C13_Witness ==
    /\ Evaluated
    /\ last.expr = <<"xyz", "aut", "post", "aut", "xyz">>
    /\ last.value
    /\ ~evaluate_condition(<<"xyz", "aut", "xyz">>)

\* C14: evaluate_condition is true for the empty condition (a condition of
\* whitespace has no word either), in every context.
C14_EmptyConditionIsTrue ==
    (Evaluated /\ last.expr = <<>>) => last.value

C14_Witness ==
    /\ Evaluated /\ last.expr = <<>> /\ last.value
    /\ ctx = ContextOf("Monastic", "Pasc1-0")

\* ---- C15, C16, C17 ----

\* the last step was a predicate_matches call
Matched == last.op = "predicate_matches"

\* the names of the predicate table
TableNames == {"tridentina", "monastica", "innovata", "innovatis", "paschali",
               "post septuagesimam", "prima", "secunda", "tertia", "longior",
               "brevior", "summorum pontificum", "feriali"}

\* a letter without its case
FoldChar(ch) == IF ch = "Æ" THEN "æ" ELSE LowerChar(ch)

RECURSIVE Fold(_)
Fold(s) ==
    IF Len(s) = 0 THEN ""
    ELSE FoldChar(SubSeq(s, 1, 1)) \o Fold(SubSeq(s, 2, Len(s)))

\* C15: predicate matching ignores letter case: a predicate written in
\* another letter case gives the same result, and a predicate that is not in
\* the table is matched against the value without regard to the letter case
\* of the value.
C15_PredicateMatchingIgnoresCase ==
    Matched =>
        /\ \A p \in Predicates :
             Fold(p) = Fold(last.predicate)
             => predicate_matches(p, last.subj_value) = last.matched
        /\ Fold(last.predicate) \notin TableNames
           => \A v \in SubjectValues :
                Fold(v) = Fold(last.subj_value)
                => predicate_matches(last.predicate, v) = last.matched

\* the season of the context is Paschal, Ascension or the octave of
\* Pentecost: the labels dayname[0] of these weeks open with "Pasc"
SeasonIsPaschal == StartsWith(ctx.dayname0, "Pasc")

\* C16: for the subject tempore, written or defaulted, the predicate tests
\* the season of the context: "tempore paschali" is true in the Paschal
\* season and false in any other.
C16_TemporeIsSeasonOfContext ==
    (Evaluated /\ last.expr \in {<<"tempore", "paschali">>, <<"paschali">>})
    => last.value = SeasonIsPaschal

\* the condition is one term whose predicate is not in the table and does
\* not compile as a pattern
MalformedTerm(ws) ==
    /\ Len(ws) >= 1
    /\ \A i \in 1..Len(ws) : ws[i] \notin {"aut", "et", "nisi"}
    /\ ToAsciiLowercase(parse_subject_predicate(ws)[2]) \notin TableNames
    /\ ~RegexCompiles(ToAsciiLowercase(parse_subject_predicate(ws)[2]))

\* C17: a condition that consists of one term whose predicate is neither in
\* the table nor a valid pattern evaluates to true.
C17_MalformedTermIsTrue ==
    (Evaluated /\ MalformedTerm(last.expr)) => last.value

C17_Witness ==
    /\ Evaluated /\ last.expr = <<"rubrica", "*bad">> /\ last.value

\* ---- C18, C19 ----

\* the last step was a process_conditional_lines call
Processed == last.op = "process_conditional_lines"

\* the line of the body that holds the fragment, and the fragment
FragLineOf(ls) == CHOOSE i \in 1..Len(ls) : HasFrag(ls[i])
FragOf(ls) == FirstFrag(ls[FragLineOf(ls)])

\* the lines of text among the lines ls that stood before the fragment
TextBefore(ls) == SelectSeq(ls, LAMBDA l : l \in BodyLines \ {<<>>})

\* the last blank line before line i, or 0: where the chunk before i opens
ChunkOpens(ls, i) ==
    IF \E b \in 1..(i - 1) : ls[b] = <<>>
    THEN CHOOSE b \in 1..(i - 1) :
            ls[b] = <<>> /\ \A h \in (b + 1)..(i - 1) : ls[h] # <<>>
    ELSE 0

\* the fragment follows a block of two lines or more
AfterBlock(ls) ==
    /\ FragLineOf(ls) >= 3
    /\ ls[FragLineOf(ls) - 1] # <<>>
    /\ ls[FragLineOf(ls) - 2] # <<>>

\* C18: a fragment whose condition is false deletes backwards by its scope
\* marker: with the marker of line scope the one line before the fragment,
\* with the marker of chunk scope the run of non-blank lines before it, back
\* to a blank line or to the start of the section.
C18_ScopedBackwardDeletion ==
    (Processed /\ AfterBlock(last.content)
        /\ ~evaluate_condition(FragOf(last.content).c)
        /\ FragOf(last.content).b \in {"hic versus omittitur", "hi versus omittuntur"})
    => TextBefore(last.out) =
         TextBefore(SubSeq(last.content, 1,
            IF FragOf(last.content).b = "hic versus omittitur"
            THEN FragLineOf(last.content) - 2
            ELSE ChunkOpens(last.content, FragLineOf(last.content))))

\* the lines that are not blank, without their fragments
WithoutSyntax(ls) ==
    SelectSeq([i \in 1..Len(ls) |-> SelectSeq(ls[i], LAMBDA t : t.k # "frag")],
              LAMBDA l : l # <<>>)

\* C19: a fragment whose condition is true loses its syntax only: the text
\* of its line is kept and no other line is deleted.
C19_TrueFragmentKeepsContent ==
    (Processed /\ evaluate_condition(FragOf(last.content).c))
    => SelectSeq(last.out, LAMBDA l : l # <<>>) = WithoutSyntax(last.content)

\* ---- C20 ----

\* the last step was a do_inclusion_substitutions call
Substituted == last.op = "do_inclusion_substitutions"

\* the lines lo to hi of the text, counted from 1, as far as the text has
\* them
LinesOfRange(text, lo, hi) ==
    [i \in 1..(Min(hi, Len(Lines(text))) - lo + 1) |-> Lines(text)[lo + i - 1]]

\* C20: the token "start-end" replaces the included text by its lines start
\* to end, counted from 1 and both included, in their order, each followed by
\* a newline (for a range that opens inside the text, start at most end).
C20_RangeKeepsLinesStartToEnd ==
    (Substituted /\ Len(last.subs) = 1 /\ last.subs[1].t = "range"
        /\ 1 <= last.subs[1].lo /\ last.subs[1].lo <= last.subs[1].hi
        /\ last.subs[1].lo <= Len(Lines(last.text)))
    => /\ last.err = "none"
       /\ last.result =
            TextOf(LinesOfRange(last.text, last.subs[1].lo, last.subs[1].hi))

\* "1-3" on a text of five lines gives its lines 1, 2 and 3
C20_Witness ==
    /\ Substituted
    /\ last.text = TextOf(<< <<W("a")>>, <<W("b")>>, <<W("a")>>, <<W("b")>>, <<W("b")>> >>)
    /\ last.subs = <<RangeSub(1, 3)>>
    /\ last.err = "none"
    /\ last.result = TextOf(<< <<W("a")>>, <<W("b")>>, <<W("a")>> >>)

\* ---- C21 ----

\* the token at position i of the text is a match of the pattern p
IsMatchAt(text, i, p) == text[i].k = "w" /\ text[i].a = p

\* C21: "s/pattern/replacement/g" replaces every match of the pattern in the
\* included text; without the g flag the first match alone is replaced and
\* every later match is left as it is.
C21_GlobalFlagReplacesEveryMatch ==
    (Substituted /\ Len(last.subs) = 1 /\ last.subs[1].t = "s")
    => /\ last.err = "none"
       /\ Len(last.result) = Len(last.text)
       /\ \A i \in 1..Len(last.text) :
            last.result[i] =
                IF /\ IsMatchAt(last.text, i, last.subs[1].p)
                   /\ (last.subs[1].g
                       \/ \A h \in 1..(i - 1) : ~IsMatchAt(last.text, h, last.subs[1].p))
                THEN W(last.subs[1].r)
                ELSE last.text[i]

\* "s/a/c/" on a text with two matches: the second one is left
C21_Witness ==
    /\ Substituted
    /\ last.subs = <<ReSub("a", "c", FALSE)>>
    /\ last.text = TextOf(<< <<W("b")>>, <<W("a")>>, <<W("a")>> >>)
    /\ last.result = TextOf(<< <<W("b")>>, <<W("c")>>, <<W("a")>> >>)

\* ---- C22 ----

\* the file of the last call is in the data folder but cannot be read
LastFileDenied ==
    /\ files[<<last.lang, last.fname>>].present
    /\ ~files[<<last.lang, last.fname>>].readable

\* C22: a failure to read a file that is there (permission denied) is
\* reported to the caller of setupstring apart from the None of a file that
\* is absent: the call does not return None.
C22_ReadFailureIsNotNone ==
    (last.op = "call" /\ LastFileDenied) => ~(last.err = "none" /\ ~last.some)

\* ---- C23 ----

\* what get_kalendar(version, day) is to return from the files of the data
\* folder: the first entry for the day along the chain of base versions
RECURSIVE ChainLookup(_, _, _)
ChainLookup(d, version, day) ==
    IF ~d.dataTxt.present \/ version \notin DOMAIN d.dataTxt.rows
    THEN NoneK
    ELSE IF d.kalendaria[d.dataTxt.rows[version].kalendar].present
            /\ day \in DOMAIN d.kalendaria[d.dataTxt.rows[version].kalendar].map
    THEN [some |-> TRUE,
          val |-> d.kalendaria[d.dataTxt.rows[version].kalendar].map[day]]
    ELSE IF d.dataTxt.rows[version].base # ""
    THEN ChainLookup(d, d.dataTxt.rows[version].base, day)
    ELSE NoneK

KalCallUnderWay == dir.pc # "idle"
KalCallReturned == dir.pc = "idle" /\ dir.stack = << >>

\* C23: every call of get_kalendar completes, the call on a base version
\* with the guards of DATA and DCACHE held included.
C23_GetKalendarCompletes == KalCallUnderWay ~> KalCallReturned

\* ---- C24 ----

\* the parsed body of section k is nothing but a directive on the section
\* itself
SelfIncluding(k) == RawSections[k] = <<DIR("", k, NoSub), NL>>

\* the parsed body of section k has no directive at the start of a line
DirectiveFree(k) ==
    \A i \in 1..Len(RawSections[k]) : ~DirectiveAt(RawSections[k], i)

NewLines(n) == [i \in 1..n |-> NL]

\* C24: a section is re-scanned at most MaxPasses times and no longer than a
\* pass changes it: a Latin section without directive is stored as parsed,
\* and a section that includes itself is stored, without an error, with its
\* directive verbatim and the one newline that each of the MaxPasses passes
\* has added.
C24_PassesCappedDirectiveLeft ==
    (last.op = "call" /\ ~last.hit /\ last.present /\ last.resolve = "All")
    => \A k \in DOMAIN RawSections :
         /\ SelfIncluding(k)
            => /\ last.err = "none" /\ last.some
               /\ k \in DOMAIN last.secs
               /\ last.secs[k] = <<DIR("", k, NoSub)>> \o NewLines(MaxPasses + 1)
               /\ LastEntry.secs[k] = last.secs[k]
         /\ (DirectiveFree(k) /\ last.lang = "Latin" /\ last.err = "none")
            => /\ k \in DOMAIN last.secs
               /\ last.secs[k] = RawSections[k]

C24_Witness ==
    /\ last.op = "call" /\ ~last.hit /\ last.resolve = "All"
    /\ last.err = "none"
    /\ "Foo" \in DOMAIN RawSections /\ SelfIncluding("Foo")
    /\ "Bar" \in DOMAIN RawSections /\ DirectiveFree("Bar")
    /\ last.secs["Bar"] = RawSections["Bar"]
    /\ last.secs["Foo"] = <<DIR("", "Foo", NoSub)>> \o NewLines(MaxPasses + 1)

\* ---- C25 ----

\* C25: a call at depth None returns the sections of the file as parsed,
\* every directive still literal, whatever calls came before it, calls for
\* the same file at depth WholeFile or All included.
C25_DepthNoneReturnsParsedSections ==
    (Returned /\ last.some /\ last.resolve = "None")
    => \A k \in DOMAIN RawSections :
         k \in DOMAIN last.secs /\ last.secs[k] = RawSections[k]

\* ---- C26 ----

\* the lines of an included text, the newline of its last line apart
WithoutLastNewline(t) ==
    IF Len(t) > 0 /\ t[Len(t)] = NL THEN SubSeq(t, 1, Len(t) - 1) ELSE t

\* the body with the line of each directive replaced by the lines of the
\* text it includes, no line more and no line less
RECURSIVE SplicedFrom(_, _, _)
SplicedFrom(text, i, key) ==
    IF i > Len(text) THEN <<>>
    ELSE (IF DirectiveAt(text, i)
          THEN WithoutLastNewline(Replacement(text[i], key))
          ELSE <<text[i]>>)
         \o SplicedFrom(text, i + 1, key)

\* C26: the expansion of a directive that fills its line replaces that line
\* by the lines of the included text and nothing else: the lines before and
\* after it stay, and no blank line is added or removed.
C26_SpliceAddsNoBlankLine ==
    (Returned /\ last.some /\ ~last.hit /\ last.lang = "Latin"
        /\ last.resolve = "All")
    => \A k \in (DOMAIN RawSections) \ {"__preamble"} :
         (/\ DirectivesOf(RawSections[k]) # {}
          /\ \A d \in DirectivesOf(RawSections[k]) : PlainTarget(d, k))
         => /\ k \in DOMAIN last.secs
            /\ last.secs[k] = SplicedFrom(RawSections[k], 1, k)

\* ---- C27 ----

\* C27: the sections that resolve_inclusions_in_sections leaves do not
\* depend on the order in which the sections other than "Rule" are
\* visited: the first call of a host at depth All returns the same sections
\* in whatever order the HashMap yields the keys.
C27_VisitOrderDoesNotMatter ==
    (Returned /\ last.some /\ ~last.hit /\ last.resolve = "All" /\ ncalls = 1)
    => \A ord \in Perms(DOMAIN last.secs) :
         SetupString(EmptyMap, last.lang, last.fname, "All", ord, {}).secs
            = last.secs

\* ---- C28 ----

\* C28: do_inclusion_substitutions does not abort on a line-range token,
\* whatever its numbers, a start beyond the last line or beyond the end
\* included: it returns the lines of the text that lie inside the range,
\* none when there is none.
C28_RangeNeverAborts ==
    (last.op = "do_inclusion_substitutions" /\ Len(last.subs) = 1
        /\ last.subs[1].t = "range")
    => /\ last.err = "none"
       /\ IF LinesOfRange(last.text, Max(last.subs[1].lo, 1), last.subs[1].hi) = <<>>
          THEN \A i \in 1..Len(last.result) : last.result[i] = NL
          ELSE Lines(last.result)
                 = LinesOfRange(last.text, Max(last.subs[1].lo, 1), last.subs[1].hi)

\* ---- C29 ----

\* the fragments of the line whose condition is false
FalseFrags(line) ==
    {i \in 1..Len(line) : line[i].k = "frag" /\ ~evaluate_condition(line[i].c)}

\* the line without the fragments whose condition is false
WithoutFalseFrags(line) ==
    SelectSeq(line, LAMBDA t : ~(t.k = "frag" /\ ~evaluate_condition(t.c)))

\* C29: process_conditional_lines, given a line with two or more fragments
\* whose condition is false, does not abort; it removes those fragments and
\* nothing else, every other character of the line staying in its order.
C29_EveryFalseFragmentRemoved ==
    (Processed /\ \E i \in 1..Len(last.content) :
                    Cardinality(FalseFrags(last.content[i])) >= 2)
    => /\ last.err = "none"
       /\ last.out =
            SelectSeq([i \in 1..Len(last.content) |->
                          WithoutFalseFrags(last.content[i])],
                      LAMBDA l : l # <<>>)

\* ---- C30 ----

\* the last step was a setupstring_parse_file call
Parsed == last.op = "setupstring_parse_file"

\* C30: the parser keeps every line of a section body that holds no
\* fragment: these lines, the blank ones among them, stand in the parsed
\* body unchanged, in their order, each as often as in the file, and no such
\* line is added.
C30_PlainLinesAreKept ==
    Parsed
    => /\ "Foo" \in DOMAIN last.secs
       /\ SelectSeq(Lines(last.secs["Foo"]), LAMBDA l : l \in BodyLines)
            = SelectSeq(last.body, LAMBDA l : ~HasFrag(l))

=============================================================================
